---------------------------- MODULE Spec2Model ----------------------------
(***************************************************************************)
(* NEC infrared remote decoder with learning mode (luisfelipe18/ir_remote). *)
(*                                                                         *)
(* main_debug.py: class IRRemoteDecoder (decode_nec, process_ir_signal,    *)
(* learn_button, trigger_output, run_continuous).                          *)
(* main.py: the stand-alone decode_nec and its polling loop.               *)
(*                                                                         *)
(* Two specifications share the variables:                                 *)
(*   Spec        the controller: menu, continuous listening, learning      *)
(*   SpecDecode  the two decode_nec functions applied to bounded inputs    *)
(***************************************************************************)
EXTENDS Integers, Sequences, FiniteSets, TLC

VARIABLES
    button_codes,    \* self.button_codes: dict from 4-byte tuple to name
    learning_mode,   \* self.learning_mode
    learning_button, \* self.learning_button
    outputs,         \* self.outputs: name -> level of the output pin
    pc,              \* where the program is: menu, run_continuous, learn_button, trigger_output, decode
    caller,          \* the loop that called process_ir_signal (where trigger_output returns to)
    elapsed,         \* ticks_diff(ticks_ms(), start_time) of the running learn_button call; 0 outside one
    pulses,          \* the pulse list handed to decode_nec (SpecDecode)
    code,            \* what IRRemoteDecoder.decode_nec returned last (<<>> is None)
    code_main,       \* what main.py's decode_nec returned (SpecDecode)
    result,          \* what process_ir_signal returned last
    learn_result,    \* what learn_button returned last
    button_name,     \* the argument of the last learn_button call
    triggered,       \* trigger_output's button_name while it holds the pin
    noise,           \* undecodable transmissions received in the running learn_button call
    cycles,          \* process_ir_signal calls made by the running/last learn_button call
    armed_table,     \* history: button_codes when learn_button was last called
    bind_at,         \* history: clock (elapsed ms) at which the last bind was stored; -1 if none
    in_time,         \* history: a cycle of this session decoded a code before the deadline
    interrupts,      \* KeyboardInterrupts delivered inside trigger_output so far
    rp,              \* read_pulses' frame: clock, start_time, t0, level, loop index (SpecCapture)
    line             \* the sensor line: "free" or "stuck_low" during a learn_button call (Spec),
                     \* its timing during one read_pulses call (SpecCapture)

vars == <<button_codes, learning_mode, learning_button, outputs, pc, caller, elapsed,
          pulses, code, code_main, result, learn_result, button_name,
          triggered, noise, cycles,
          armed_table, bind_at, in_time, interrupts, rp, line>>

---------------------------------------------------------------------------
(* Bounds of the model *)

MaxNoise == 1         \* undecodable transmissions during one learn_button call
MaxExtra == 1         \* entries a generated pulse list has beyond the 67 of a full frame
MaxInterrupts == 1    \* KeyboardInterrupts delivered while trigger_output holds a pin
MaxEdges == 101       \* level changes the line makes during one read_pulses call

(* Program constants *)

MIN_PULSES == 66            \* len(pulses) < 66
IDLE_TIMEOUT_MS == 100      \* read_pulses(timeout_ms=100)
PULSE_TIMEOUT_US == 10000   \* per-level timeout of read_pulses
LEARN_TIMEOUT_MS == 10000   \* learn_button waits up to 10 s
LEARN_SLEEP_MS == 10        \* sleep_ms(10) of the learn loop
TRIGGER_MS == 400           \* trigger_output(duration_ms=400)
MAX_PULSES == 100           \* for _ in range(100)

None == <<>>                \* decode_nec's None (falsy, like an empty list)

NoFrame == <<>>             \* no read_pulses call is being stepped
NoLine == "free"            \* the line idles high between transmissions

---------------------------------------------------------------------------
(* Names and the seeded table *)

OutputNames == {"POWER", "UP", "DOWN", "LEFT", "RIGHT", "MENU"}

\* the seeded table with the names of UP and DOWN exchanged
SeedPairsSwapped ==
    << << <<97, 214,  72, 183>>, "POWER" >>,
       << <<97, 214, 216,  39>>, "DOWN"  >>,
       << <<97, 214,  88, 167>>, "UP"    >>,
       << <<97, 214,  32, 223>>, "LEFT"  >>,
       << <<97, 214,  96, 159>>, "RIGHT" >>,
       << <<97, 214, 160,  95>>, "MENU"  >> >>

SeedPairs ==
    << << <<97, 214,  72, 183>>, "POWER" >>,    \* (0x61, 0xD6, 0x48, 0xB7)
       << <<97, 214, 216,  39>>, "UP"    >>,    \* (0x61, 0xD6, 0xD8, 0x27)
       << <<97, 214,  88, 167>>, "DOWN"  >>,    \* (0x61, 0xD6, 0x58, 0xA7)
       << <<97, 214,  32, 223>>, "LEFT"  >>,    \* (0x61, 0xD6, 0x20, 0xDF)
       << <<97, 214,  96, 159>>, "RIGHT" >>,    \* (0x61, 0xD6, 0x60, 0x9F)
       << <<97, 214, 160,  95>>, "MENU"  >> >>  \* (0x61, 0xD6, 0xA0, 0x5F)

SeedTable ==
    [k \in {SeedPairs[i][1] : i \in 1..Len(SeedPairs)} |->
        SeedPairs[CHOOSE i \in 1..Len(SeedPairs) : SeedPairs[i][1] = k][2]]

---------------------------------------------------------------------------
(* decode_nec of main_debug.py.  Python index k is TLA+ index k+1. *)

InOpen(lo, x, hi) == lo < x /\ x < hi

TooShort(p) == Len(p) < MIN_PULSES

\* the header windows with their boundaries included
HeaderOkInclusive(p) ==
    /\ 8500 <= p[1] /\ p[1] <= 9500
    /\ 4000 <= p[2] /\ p[2] <= 5000

HeaderOk(p) == InOpen(8500, p[1], 9500) /\ InOpen(4000, p[2], 5000)

\* the bit windows with their boundaries included
ClassifyBitInclusive(space) ==
    IF 400 <= space /\ space <= 700 THEN 0
    ELSE IF 1500 <= space /\ space <= 1800 THEN 1
    ELSE -1

\* one bit from the space duration: 0, 1, or -1 (the else branch)
ClassifyBit(space) ==
    IF InOpen(400, space, 700) THEN 0
    ELSE IF InOpen(1500, space, 1800) THEN 1
    ELSE -1

\* for i in range(2, 66, 2): break when i+1 >= len; return None on an invalid bit.
\* The value is the bit list, or <<-1>> when the loop returned None.
RECURSIVE DecodeBits(_, _, _)
DecodeBits(p, i, bits) ==
    IF i >= 66 THEN bits
    ELSE IF i + 1 >= Len(p) THEN bits
    ELSE LET b == ClassifyBit(p[i + 2]) IN
         IF b = -1 THEN <<-1>>
         ELSE DecodeBits(p, i + 2, Append(bits, b))

\* the bits packed least significant first
RECURSIVE PackByteLsbFirst(_, _)
PackByteLsbFirst(bits, byte) ==
    IF bits = <<>> THEN byte
    ELSE PackByteLsbFirst(SubSeq(bits, 1, Len(bits) - 1), byte * 2 + bits[Len(bits)])

\* byte = (byte << 1) | bit over bits[i:i+8]
RECURSIVE PackByte(_, _)
PackByte(bits, byte) ==
    IF bits = <<>> THEN byte
    ELSE PackByte(Tail(bits), byte * 2 + Head(bits))

\* bits[i:i+8], a Python slice (it stops at the end of the list)
Slice(bits, i) ==
    SubSeq(bits, i + 1, IF i + 8 <= Len(bits) THEN i + 8 ELSE Len(bits))

\* for i in range(0, 32, 8): hex_code.append(byte)
PackBytes(bits) ==
    << PackByte(Slice(bits, 0), 0), PackByte(Slice(bits, 8), 0),
       PackByte(Slice(bits, 16), 0), PackByte(Slice(bits, 24), 0) >>

DecodeNec(p) ==
    IF TooShort(p) THEN None
    ELSE IF ~HeaderOk(p) THEN None
    ELSE LET bits == DecodeBits(p, 2, <<>>) IN
         IF bits = <<-1>> THEN None
         ELSE IF Len(bits) < 32 THEN None
         ELSE PackBytes(bits)

---------------------------------------------------------------------------
(* decode_nec of main.py: no break, '?' markers (-1 here) rejected at the end. *)

IndexError == <<-2>>        \* pulses[i+1] past the end of the list raises

\* the length test off by one
TooShortMainOffByOne(p) == Len(p) < MIN_PULSES - 1

TooShortMain(p) == Len(p) < MIN_PULSES

HeaderOkMain(p) == InOpen(8500, p[1], 9500) /\ InOpen(4000, p[2], 5000)

\* an unclassifiable space taken as a 0 bit
ClassifyBitMainGuess(low) ==
    IF InOpen(1500, low, 1800) THEN 1 ELSE 0

ClassifyBitMain(low) ==
    IF InOpen(400, low, 700) THEN 0
    ELSE IF InOpen(1500, low, 1800) THEN 1
    ELSE -1

RECURSIVE DecodeBitsMain(_, _, _)
DecodeBitsMain(p, i, bits) ==
    IF i >= 66 THEN bits
    ELSE IF i + 2 > Len(p) THEN IndexError
    ELSE DecodeBitsMain(p, i + 2, Append(bits, ClassifyBitMain(p[i + 2])))

DecodeNecMain(p) ==
    IF TooShortMain(p) THEN None
    ELSE IF ~HeaderOkMain(p) THEN None
    ELSE LET bits == DecodeBitsMain(p, 2, <<>>) IN
         IF bits = IndexError THEN IndexError
         ELSE IF \E k \in 1..Len(bits) : bits[k] = -1 THEN None
         ELSE PackBytes(bits)

---------------------------------------------------------------------------
(* Inputs: NEC frames as the sensor delivers them, and damaged ones. *)

\* the 8 bits of a byte, most significant first
ByteBits(b) == [i \in 1..8 |-> (b \div (2 ^ (8 - i))) % 2]

CodeBits(c) == ByteBits(c[1]) \o ByteBits(c[2]) \o ByteBits(c[3]) \o ByteBits(c[4])

\* header 9000/4500, 32 x (mark 560, space 550 or 1650), stop mark: 67 entries
Frame(c) ==
    LET bits == CodeBits(c) IN
    <<9000, 4500>> \o
    [k \in 1..64 |-> IF k % 2 = 1 THEN 560
                     ELSE IF bits[k \div 2] = 1 THEN 1650 ELSE 550] \o
    <<560>>

RECURSIVE Pad(_, _)
Pad(p, n) == IF Len(p) >= n THEN p
             ELSE Pad(Append(p, IF Len(p) % 2 = 0 THEN 560 ELSE 550), n)

Resize(p, n) == IF n <= Len(p) THEN SubSeq(p, 1, n) ELSE Pad(p, n)

Perturb(p, pos, v) == [p EXCEPT ![pos] = v]

NewCode == <<17, 34, 51, 68>>          \* (0x11, 0x22, 0x33, 0x44)
NearCode == <<97, 214, 216, 38>>       \* the seeded UP code with its last bit cleared
UpCode == <<97, 214, 216, 39>>
PowerCode == <<97, 214, 72, 183>>

InputCodes == {PowerCode, NewCode, <<0, 255, 170, 85>>}

ProbeValues == {0, 400, 401, 550, 699, 700, 1100, 1500, 1501, 1650, 1799, 1800,
                4000, 4001, 4999, 5000, 8500, 8501, 9499, 9500}

InputLens == {0, 1, 2, 34, 65, 66, 67} \cup (68 .. (67 + MaxExtra))

DecodeInputs ==
    { Resize(Perturb(Frame(c), pos, v), n) :
        c \in InputCodes, pos \in 1..67, v \in ProbeValues, n \in InputLens }

---------------------------------------------------------------------------
(* What a cycle's read_pulses can return, and how long it took. *)

\* codes received while learning
CycleCodes == {UpCode, NewCode}

\* codes received by run_continuous: the six seeded ones, a new one, a near miss
ListenCodes == CycleCodes \cup {NearCode} \cup {SeedPairs[i][1] : i \in 1..Len(SeedPairs)}

\* a frame whose header space is outside the window, and a frame cut short
NoisePulses == {Perturb(Frame(NewCode), 2, 5000), SubSeq(Frame(UpCode), 1, 40)}

CyclePulses == {<<>>} \cup {Frame(c) : c \in CycleCodes} \cup NoisePulses

ListenPulses == {<<>>} \cup {Frame(c) : c \in ListenCodes} \cup NoisePulses

\* ms spent waiting for the line to go low: at once, or at the last moment
WaitSet == {0, IDLE_TIMEOUT_MS}

RECURSIVE Sum(_)
Sum(p) == IF p = <<>> THEN 0 ELSE Head(p) + Sum(Tail(p))

\* read_pulses returns [] once the wait exceeds timeout_ms; otherwise after the
\* wait, the recorded levels and, below 100 entries, the level that timed out
\* (a line low from the start that never changes gives [] after one pulse timeout)
CaptureMs(wait, p) ==
    IF p = <<>> THEN (IF wait = 0 THEN (PULSE_TIMEOUT_US + 1) \div 1000
                      ELSE IDLE_TIMEOUT_MS + 1)
    ELSE wait + (Sum(p) + (IF Len(p) < 100 THEN PULSE_TIMEOUT_US + 1 ELSE 0)) \div 1000

\* decode_nec and the capture time of each input of a cycle, computed once
DecodedOf == [p \in ListenPulses |-> DecodeNec(p)]

CaptureMsOf == [p \in ListenPulses |-> [w \in WaitSet |-> CaptureMs(w, p)]]

---------------------------------------------------------------------------
(* The code table *)

\* key in self.button_codes / self.button_codes[key]
Lookup(table, key) == IF key \in DOMAIN table THEN table[key] ELSE "None"

\* setdefault: an existing key keeps its name
BindIfAbsent(table, key, name) ==
    [k \in DOMAIN table \cup {key} |-> IF k \in DOMAIN table THEN table[k] ELSE name]

\* a relearned name loses its older codes
BindPrune(table, key, name) ==
    [k \in {j \in DOMAIN table : table[j] # name} \cup {key} |->
        IF k = key THEN name ELSE table[k]]

\* self.button_codes[key] = self.learning_button
Bind(table, key, name) ==
    [k \in DOMAIN table \cup {key} |-> IF k = key THEN name ELSE table[k]]

---------------------------------------------------------------------------
(* process_ir_signal *)

\* the table consulted before learning_mode
BranchDispatchFirst(p, c) ==
    IF p = <<>> THEN "none"
    ELSE IF c = None THEN "none"
    ELSE IF c \in DOMAIN button_codes THEN "known"
    ELSE IF learning_mode THEN "learn"
    ELSE "unknown"

\* an unbound code stored as if learning were armed
BranchAutoLearn(p, c) ==
    IF p = <<>> THEN "none"
    ELSE IF c = None THEN "none"
    ELSE IF learning_mode \/ c \notin DOMAIN button_codes THEN "learn"
    ELSE "known"

\* learning_mode tested before the decode result
BranchLearnUnchecked(p, c) ==
    IF learning_mode THEN "learn"
    ELSE IF p = <<>> THEN "none"
    ELSE IF c = None THEN "none"
    ELSE IF c \in DOMAIN button_codes THEN "known"
    ELSE "unknown"

\* which branch of lines 159-188 runs for the decoded value c
Branch(p, c) ==
    IF p = <<>> THEN "none"
    ELSE IF c = None THEN "none"
    ELSE IF learning_mode THEN "learn"
    ELSE IF c \in DOMAIN button_codes THEN "known"
    ELSE "unknown"

\* trigger_output up to pin.on(): a name without a pin is skipped
TriggerStart(name, from) ==
    IF name \in DOMAIN outputs
    THEN /\ outputs' = [outputs EXCEPT ![name] = TRUE]
         /\ triggered' = name
         /\ caller' = from
         /\ pc' = "trigger_output"
    ELSE /\ pc' = from
         /\ UNCHANGED <<outputs, triggered, caller>>

\* one call from the loop `from`, whose read_pulses returned p after d ms
ProcessIrSignal(p, d, from) ==
    LET c == IF p = <<>> THEN None ELSE DecodedOf[p]
        b == Branch(p, c)
    IN  /\ code' = c
        /\ CASE b = "none" ->
                  /\ result' = "None"
                  /\ pc' = from
                  /\ UNCHANGED <<button_codes, learning_mode, outputs, triggered,
                                 caller, bind_at>>
             [] b = "learn" ->
                  /\ button_codes' = Bind(button_codes, c, learning_button)
                  /\ learning_mode' = FALSE
                  /\ result' = learning_button
                  /\ bind_at' = elapsed + d
                  /\ pc' = from
                  /\ UNCHANGED <<outputs, triggered, caller>>
             [] b = "known" ->
                  /\ result' = button_codes[c]
                  /\ TriggerStart(button_codes[c], from)
                  /\ UNCHANGED <<button_codes, learning_mode, bind_at>>
             [] OTHER ->
                  /\ result' = "UNKNOWN"
                  /\ pc' = from
                  /\ UNCHANGED <<button_codes, learning_mode, outputs, triggered,
                                 caller, bind_at>>

\* trigger_output from sleep_ms(duration_ms) on: pin.off() and back to the loop
TriggerDone ==
    /\ UNCHANGED <<interrupts, rp, line>>
    /\ pc = "trigger_output"
    /\ outputs' = [outputs EXCEPT ![triggered] = FALSE]
    /\ triggered' = "None"
    /\ pc' = caller
    /\ elapsed' = IF caller = "learn_button"
                  THEN elapsed + TRIGGER_MS + LEARN_SLEEP_MS ELSE elapsed
    /\ UNCHANGED <<button_codes, learning_mode, learning_button, caller, pulses, code,
                   code_main, result, learn_result, button_name, noise,
                   cycles, armed_table, bind_at, in_time>>

---------------------------------------------------------------------------
(* run_continuous *)

StartContinuous ==
    /\ UNCHANGED <<interrupts, rp, line>>
    /\ pc = "menu"
    /\ pc' = "run_continuous"
    /\ UNCHANGED <<button_codes, learning_mode, learning_button, outputs, caller,
                   elapsed, pulses, code, code_main, result, learn_result, button_name,
                   triggered, noise, cycles, armed_table, bind_at, in_time>>

\* one turn of `while True: self.process_ir_signal(); time.sleep_ms(50)`
ContinuousCycle ==
    /\ UNCHANGED <<interrupts, rp, line>>
    /\ pc = "run_continuous"
    /\ \E p \in ListenPulses, w \in WaitSet :
          ProcessIrSignal(p, CaptureMsOf[p][w], "run_continuous")
    /\ UNCHANGED <<learning_button, elapsed, pulses, code_main, learn_result,
                   button_name, noise, cycles, armed_table, in_time>>

\* KeyboardInterrupt raised inside trigger_output's sleep_ms: the except clause of
\* run_continuous ends the loop and pin.off() is never reached
InterruptTrigger ==
    /\ pc = "trigger_output"
    /\ caller = "run_continuous"
    /\ interrupts < MaxInterrupts
    /\ interrupts' = interrupts + 1
    /\ triggered' = "None"
    /\ pc' = "menu"
    /\ UNCHANGED <<button_codes, learning_mode, learning_button, outputs, caller,
                   elapsed, pulses, code, code_main, result, learn_result, button_name,
                   noise, cycles, armed_table, bind_at, in_time, rp, line>>

\* KeyboardInterrupt raised between two turns (in sleep_ms(50) or read_pulses)
StopContinuous ==
    /\ UNCHANGED <<interrupts, rp, line>>
    /\ pc = "run_continuous"
    /\ pc' = "menu"
    /\ UNCHANGED <<button_codes, learning_mode, learning_button, outputs, caller,
                   elapsed, pulses, code, code_main, result, learn_result, button_name,
                   triggered, noise, cycles, armed_table, bind_at, in_time>>

---------------------------------------------------------------------------
(* learn_button *)

LearnNames == {"UP", "DOWN", "VOLUME"}      \* VOLUME has no output pin

\* only the empty name rejected
UnknownButtonEmpty(name) == name = ""

\* button_name not in self.outputs
UnknownButton(name) == name \notin DOMAIN outputs

\* lines 133-144: reject an unknown name, else arm and read start_time
LearnButton ==
    /\ UNCHANGED <<interrupts, rp>>
    /\ line' \in {"free", "stuck_low"}
    /\ pc = "menu"
    /\ \E name \in LearnNames :
          /\ button_name' = name
          /\ IF UnknownButton(name)
             THEN /\ learn_result' = "False"
                  /\ UNCHANGED <<learning_mode, learning_button, pc>>
             ELSE /\ learning_mode' = TRUE
                  /\ learning_button' = name
                  /\ learn_result' = "pending"
                  /\ pc' = "learn_button"
    /\ elapsed' = 0
    /\ noise' = 0
    /\ cycles' = 0
    /\ armed_table' = button_codes
    /\ bind_at' = -1
    /\ in_time' = FALSE
    /\ UNCHANGED <<button_codes, outputs, caller, pulses, code, code_main, result,
                   triggered>>

\* the loop condition of line 145
LoopCondition == learning_mode /\ elapsed < LEARN_TIMEOUT_MS

\* one turn of the loop: process_ir_signal(), then sleep_ms(10)
LearnCycle ==
    /\ UNCHANGED <<interrupts, rp, line>>
    /\ pc = "learn_button"
    /\ LoopCondition
    /\ \E p \in CyclePulses, w \in WaitSet :
          LET d == CaptureMsOf[p][w]
              undecodable == p # <<>> /\ DecodedOf[p] = None
          IN  /\ line = "stuck_low" => (p = <<>> /\ w = 0)
              /\ line = "free" => (p = <<>> => w = IDLE_TIMEOUT_MS)
              /\ undecodable => noise < MaxNoise
              /\ noise' = IF undecodable THEN noise + 1 ELSE noise
              /\ ProcessIrSignal(p, d, "learn_button")
              /\ elapsed' = IF pc' = "learn_button"
                            THEN elapsed + d + LEARN_SLEEP_MS ELSE elapsed + d
              /\ in_time' = (in_time \/ (code' # None /\ elapsed + d < LEARN_TIMEOUT_MS))
    /\ cycles' = cycles + 1
    /\ UNCHANGED <<learning_button, pulses, code_main, learn_result, button_name,
                   armed_table>>

\* the timeout branch leaving learning armed
ModeAfterTimeoutKept == TRUE

\* line 151: self.learning_mode = False
ModeAfterTimeout == FALSE

\* lines 149-154: the loop has ended
LearnReturn ==
    /\ UNCHANGED <<interrupts, rp, line>>
    /\ pc = "learn_button"
    /\ ~LoopCondition
    /\ IF learning_mode
       THEN /\ learning_mode' = ModeAfterTimeout
            /\ learn_result' = "False"
       ELSE /\ learn_result' = "True"
            /\ UNCHANGED learning_mode
    /\ pc' = "menu"
    /\ elapsed' = 0
    /\ noise' = 0
    /\ cycles' = 0
    /\ bind_at' = -1
    /\ UNCHANGED <<button_codes, learning_button, outputs, caller, pulses, code,
                   code_main, result, button_name, triggered, armed_table, in_time>>

---------------------------------------------------------------------------
(* The controller *)

Init ==
    /\ button_codes = SeedTable
    /\ learning_mode = FALSE
    /\ learning_button = ""
    /\ outputs = [n \in OutputNames |-> FALSE]
    /\ pc = "menu"
    /\ caller = "menu"
    /\ elapsed = 0
    /\ pulses = <<>>
    /\ code = None
    /\ code_main = None
    /\ result = "None"
    /\ learn_result = "None"
    /\ button_name = ""
    /\ triggered = "None"
    /\ noise = 0
    /\ cycles = 0
    /\ armed_table = SeedTable
    /\ bind_at = -1
    /\ in_time = FALSE
    /\ interrupts = 0
    /\ rp = NoFrame
    /\ line = NoLine

Next ==
    \/ StartContinuous
    \/ ContinuousCycle
    \/ StopContinuous
    \/ InterruptTrigger
    \/ TriggerDone
    \/ LearnButton
    \/ LearnCycle
    \/ LearnReturn

Spec == Init /\ [][Next]_vars

\* the program is one thread that keeps running: a loop turn, a return or a
\* pin.off() that is due is taken; what the user chooses is not forced
FairSpec ==
    /\ Spec
    /\ WF_vars(LearnCycle)
    /\ WF_vars(LearnReturn)
    /\ WF_vars(TriggerDone)

---------------------------------------------------------------------------
(* The decoders applied to the generated inputs *)

Pending == <<-3>>           \* not yet computed

InitDecode ==
    /\ pulses \in DecodeInputs
    /\ code = Pending
    /\ code_main = Pending
    /\ pc = "decode"
    /\ button_codes = SeedTable
    /\ learning_mode = FALSE
    /\ learning_button = ""
    /\ outputs = [n \in OutputNames |-> FALSE]
    /\ caller = "menu"
    /\ elapsed = 0
    /\ result = "None"
    /\ learn_result = "None"
    /\ button_name = ""
    /\ triggered = "None"
    /\ noise = 0
    /\ cycles = 0
    /\ armed_table = SeedTable
    /\ bind_at = -1
    /\ in_time = FALSE
    /\ interrupts = 0
    /\ rp = NoFrame
    /\ line = NoLine

RunDecodeNec ==
    /\ UNCHANGED <<interrupts, rp, line>>
    /\ pc = "decode"
    /\ code = Pending
    /\ code' = DecodeNec(pulses)
    /\ UNCHANGED <<button_codes, learning_mode, learning_button, outputs, pc, caller,
                   elapsed, pulses, code_main, result, learn_result, button_name,
                   triggered, noise, cycles, armed_table, bind_at, in_time>>

RunDecodeNecMain ==
    /\ UNCHANGED <<interrupts, rp, line>>
    /\ pc = "decode"
    /\ code_main = Pending
    /\ code_main' = DecodeNecMain(pulses)
    /\ UNCHANGED <<button_codes, learning_mode, learning_button, outputs, pc, caller,
                   elapsed, pulses, code, result, learn_result, button_name,
                   triggered, noise, cycles, armed_table, bind_at, in_time>>

NextDecode == RunDecodeNec \/ RunDecodeNecMain

SpecDecode == InitDecode /\ [][NextDecode]_vars

---------------------------------------------------------------------------
(* read_pulses, statement by statement (SpecCapture).                       *)
(*                                                                         *)
(* rp.now is the clock in microseconds; ticks_ms() is rp.now \div 1000 and  *)
(* ticks_diff is a subtraction (the counters do not wrap within one call).  *)
(* line = [low_at, hold, edges, tick]: the line is high until low_at (never *)
(* low when low_at = -1), then changes level every hold microseconds, edges *)
(* times, and keeps its last level; tick is the time from one statement's   *)
(* reads to the next statement's.                                          *)

\* coarse polling over whole captures, fine polling over short ones
LineScenarios ==
    [low_at : {-1, 0, 50000, 100000}, hold : {5000, 10000, 12500, 13000, 30000},
     edges : {0, 1, 2, 66, 99, 100, MaxEdges}, tick : {2500}]
    \cup [low_at : {0}, hold : {560, 9000, 10100}, edges : {0, 1, 3}, tick : {50}]

\* self.ir_pin.value() at time t
PinValue(t) ==
    IF line.low_at < 0 \/ t < line.low_at THEN 1
    ELSE LET n == (t - line.low_at) \div line.hold
             k == IF n < line.edges THEN n ELSE line.edges
         IN  IF k % 2 = 0 THEN 0 ELSE 1

TicksMs(t) == t \div 1000

ctlvars == <<button_codes, learning_mode, learning_button, outputs, caller, elapsed,
             code, code_main, result, learn_result, button_name, triggered, noise,
             cycles, armed_table, bind_at, in_time, interrupts>>

\* a return statement: the value, and which statement returned it
Return(value, how) ==
    /\ rp' = [rp EXCEPT !.returned = value, !.how = how]
    /\ pc' = "rp_done"
    /\ UNCHANGED pulses

\* lines 46-47: pulses = []; start_time = time.ticks_ms()
RP_Start ==
    /\ pc = "rp_start"
    /\ pulses' = <<>>
    /\ rp' = [rp EXCEPT !.start_time = TicksMs(rp.now), !.now = rp.now + line.tick]
    /\ pc' = "rp_wait"
    /\ UNCHANGED <<ctlvars, line>>

\* lines 50-52: one pass of `while self.ir_pin.value() == 1`
RP_WaitLow ==
    /\ pc = "rp_wait"
    /\ IF PinValue(rp.now) = 1
       THEN IF TicksMs(rp.now) - rp.start_time > IDLE_TIMEOUT_MS
            THEN Return(<<>>, "idle_timeout")
            ELSE /\ rp' = [rp EXCEPT !.now = rp.now + line.tick]
                 /\ UNCHANGED <<pc, pulses>>
       ELSE /\ rp' = [rp EXCEPT !.now = rp.now + line.tick, !.seen_low = TRUE]
            /\ pc' = "rp_for"
            /\ UNCHANGED pulses
    /\ UNCHANGED <<ctlvars, line>>

\* range(100) exhausted one pass late
ForDoneLate(i) == i > MAX_PULSES

\* for _ in range(100): exhausted after i passes
ForDone(i) == i >= MAX_PULSES

\* lines 55-57 and 67: the next pass reads t0 and level, or the loop is exhausted
RP_For ==
    /\ pc = "rp_for"
    /\ IF ForDone(rp.i)
       THEN Return(pulses, "full")
       ELSE /\ rp' = [rp EXCEPT !.i = rp.i + 1, !.t0 = rp.now,
                                !.level = PinValue(rp.now),
                                !.now = rp.now + line.tick]
            /\ pc' = "rp_while"
            /\ UNCHANGED pulses
    /\ UNCHANGED <<ctlvars, line>>

\* lines 60-62: one pass of `while self.ir_pin.value() == level`
RP_While ==
    /\ pc = "rp_while"
    /\ IF PinValue(rp.now) = rp.level
       THEN IF rp.now - rp.t0 > PULSE_TIMEOUT_US
            THEN Return(pulses, "pulse_timeout")
            ELSE /\ rp' = [rp EXCEPT !.now = rp.now + line.tick]
                 /\ UNCHANGED <<pc, pulses>>
       ELSE /\ rp' = [rp EXCEPT !.now = rp.now + line.tick]
            /\ pc' = "rp_append"
            /\ UNCHANGED pulses
    /\ UNCHANGED <<ctlvars, line>>

\* lines 64-65: duration = ticks_diff(ticks_us(), t0); pulses.append(duration)
RP_Append ==
    /\ pc = "rp_append"
    /\ pulses' = Append(pulses, rp.now - rp.t0)
    /\ rp' = [rp EXCEPT !.now = rp.now + line.tick]
    /\ pc' = "rp_for"
    /\ UNCHANGED <<ctlvars, line>>

InitCapture ==
    /\ line \in LineScenarios
    /\ rp = [now |-> 0, start_time |-> 0, t0 |-> 0, level |-> 1, i |-> 0,
             seen_low |-> FALSE, returned |-> <<>>, how |-> "running"]
    /\ pc = "rp_start"
    /\ pulses = <<>>
    /\ button_codes = SeedTable
    /\ learning_mode = FALSE
    /\ learning_button = ""
    /\ outputs = [n \in OutputNames |-> FALSE]
    /\ caller = "menu"
    /\ elapsed = 0
    /\ code = None
    /\ code_main = None
    /\ result = "None"
    /\ learn_result = "None"
    /\ button_name = ""
    /\ triggered = "None"
    /\ noise = 0
    /\ cycles = 0
    /\ armed_table = SeedTable
    /\ bind_at = -1
    /\ in_time = FALSE
    /\ interrupts = 0

NextCapture == RP_Start \/ RP_WaitLow \/ RP_For \/ RP_While \/ RP_Append

SpecCapture == InitCapture /\ [][NextCapture]_vars

\* read_pulses is straight-line code in one thread: a statement that can run, runs
FairSpecCapture == SpecCapture /\ WF_vars(NextCapture)

---------------------------------------------------------------------------
(* Properties of the controller (Spec) *)

AllOff == \A n \in DOMAIN outputs : ~outputs[n]

\* a step of the learn loop that ran process_ir_signal
LearnCycleStep == pc = "learn_button" /\ cycles' = cycles + 1

\* C1: when a cycle of an armed learn_button call (for a known name T) decodes a
\* code c, the table maps c to T afterwards, learning_mode is false, and the call
\* returns True.
C1_LearnBinds ==
    /\ [][ (LearnCycleStep /\ learning_mode /\ code' # None) =>
              /\ learning_button \in OutputNames
              /\ Lookup(button_codes', code') = learning_button
              /\ ~learning_mode'
              /\ result' = learning_button ]_vars
    /\ [][ (pc = "learn_button" /\ pc' = "menu" /\ code # None) =>
              /\ learn_result' = "True"
              /\ Lookup(button_codes', code) = button_name
              /\ ~learning_mode' ]_vars

C1_Witness ==
    /\ pc = "menu"
    /\ learn_result = "True"
    /\ button_name = "DOWN"
    /\ code = NewCode
    /\ Lookup(button_codes, NewCode) = "DOWN"
    /\ ~learning_mode

\* C2: a learn_button call in which no cycle decoded a code before the deadline
\* returns False and leaves the table as it was when the call armed learning.
C2_NoDecodeTimesOut ==
    (pc = "menu" /\ learn_result \in {"True", "False"} /\ button_name \in OutputNames
        /\ ~in_time)
    => (learn_result = "False" /\ button_codes = armed_table)

\* C3: no bind is stored at a clock time at or after the deadline
\* (start_time + 10000 ms).
C3_BindBeforeDeadline == bind_at < LEARN_TIMEOUT_MS

\* C4: no cycle of the learn loop asserts an output line, whether or not the
\* decoded code is already in the table.
C4_NoDispatchWhileLearning ==
    [][ pc = "learn_button" =>
           /\ outputs' = outputs
           /\ pc' # "trigger_output" ]_vars

C4_Witness ==
    /\ pc = "learn_button"
    /\ cycles > 0
    /\ code = UpCode
    /\ UpCode \in DOMAIN armed_table
    /\ ~learning_mode
    /\ AllOff

\* C5: learn_button with a name that has no output returns False at once:
\* learning_mode stays false, no cycle runs, the table is unchanged.
C5_UnknownNameRejected ==
    [][ (pc = "menu" /\ pc' # "run_continuous" /\ button_name' \notin OutputNames) =>
           /\ learn_result' = "False"
           /\ pc' = "menu"
           /\ ~learning_mode'
           /\ cycles' = 0
           /\ button_codes' = button_codes ]_vars

C5_Witness ==
    /\ pc = "menu"
    /\ button_name = "VOLUME"
    /\ learn_result = "False"
    /\ cycles = 0

\* codes to look up around a bind: the received ones, the seeded ones, and every
\* code one byte away from a received one
ProbeCodes ==
    CycleCodes \cup {SeedPairs[i][1] : i \in 1..Len(SeedPairs)}
    \cup { [c EXCEPT ![i] = (c[i] + 1) % 256] : c \in CycleCodes, i \in 1..4 }

DiffersInAByte(a, b) == \E i \in 1..4 : a[i] # b[i]

\* C6: a bind of code c to name n changes the entry of c only: lookup(c) is n,
\* and every code differing from c in a byte looks up as before.
C6_BindFrame ==
    [][ (LearnCycleStep /\ learning_mode /\ ~learning_mode') =>
           /\ Lookup(button_codes', code') = learning_button
           /\ \A k \in ProbeCodes \cup DOMAIN button_codes \cup DOMAIN button_codes' :
                 DiffersInAByte(k, code') =>
                    Lookup(button_codes', k) = Lookup(button_codes, k) ]_vars

C6_Witness ==
    /\ pc = "learn_button"
    /\ ~learning_mode
    /\ code = NewCode
    /\ Lookup(button_codes, NewCode) = "UP"
    /\ Lookup(button_codes, UpCode) = "UP"
    /\ Lookup(button_codes, <<17, 34, 51, 69>>) = "None"

---------------------------------------------------------------------------
(* Properties of the decoders (SpecDecode) *)

Rejected(c) == c \in {Pending, None}

\* entries 0 and 1 inside the header windows
ValidHeader(p) ==
    Len(p) >= 2 /\ 8500 < p[1] /\ p[1] < 9500 /\ 4000 < p[2] /\ p[2] < 5000

ValidSpace(x) == (400 < x /\ x < 700) \/ (1500 < x /\ x < 1800)

\* the space of data bit i (0..31) is entry 2 + 2i + 1, counted from 0
SpaceOf(p, i) == p[2 + 2 * i + 2]

\* C8: a pulse list of fewer than 66 entries decodes to None, whatever it holds.
C8_ShortIsNone ==
    Len(pulses) < 66 => (Rejected(code) /\ Rejected(code_main))

C8_Witness ==
    /\ Len(pulses) = 65
    /\ ValidHeader(pulses)
    /\ \A i \in 0..30 : ValidSpace(SpaceOf(pulses, i))
    /\ code = None
    /\ code_main = None

\* C9: a list whose entry 0 is not strictly inside (8500, 9500) or whose entry 1
\* is not strictly inside (4000, 5000) decodes to None.
C9_HeaderWindows ==
    (Len(pulses) >= 2 /\ ~ValidHeader(pulses))
    => (Rejected(code) /\ Rejected(code_main))

C9_Witness ==
    /\ Len(pulses) = 67
    /\ pulses[1] = 9000
    /\ pulses[2] \in {4000, 5000}
    /\ \A i \in 0..31 : ValidSpace(SpaceOf(pulses, i))
    /\ code = None
    /\ code_main = None

\* C10: if any of the 32 spaces lies outside both open windows the list decodes to
\* None; a code is returned only when all 32 spaces are valid.
C10_AllOrNothing ==
    /\ (\E i \in 0..31 : 2 * i + 4 <= Len(pulses) /\ ~ValidSpace(SpaceOf(pulses, i)))
          => (Rejected(code) /\ Rejected(code_main))
    /\ \A c \in {code, code_main} :
          ~Rejected(c) =>
             /\ Len(c) = 4
             /\ Len(pulses) >= 66
             /\ \A i \in 0..31 : ValidSpace(SpaceOf(pulses, i))

C10_Witness ==
    /\ Len(pulses) = 67
    /\ ValidHeader(pulses)
    /\ \E i \in 0..31 :
          /\ SpaceOf(pulses, i) \in {400, 700, 1500, 1800}
          /\ \A j \in 0..31 : j # i => ValidSpace(SpaceOf(pulses, j))
    /\ code = None
    /\ code_main = None

\* bit i (0..31) as the claim reads it off the space at entry 2 + 2i + 1
BitOf(p, i) == IF 1500 < SpaceOf(p, i) /\ SpaceOf(p, i) < 1800 THEN 1 ELSE 0

\* byte k (0..3): bits 8k .. 8k+7, most significant first
ByteOf(p, k) ==
    BitOf(p, 8 * k) * 128 + BitOf(p, 8 * k + 1) * 64 + BitOf(p, 8 * k + 2) * 32
    + BitOf(p, 8 * k + 3) * 16 + BitOf(p, 8 * k + 4) * 8 + BitOf(p, 8 * k + 5) * 4
    + BitOf(p, 8 * k + 6) * 2 + BitOf(p, 8 * k + 7)

WellFormed(p) ==
    /\ Len(p) >= 66
    /\ ValidHeader(p)
    /\ \A i \in 0..31 : ValidSpace(SpaceOf(p, i))

\* C11: a list of at least 66 entries with a valid header and 32 valid spaces
\* decodes to exactly 4 bytes in 0..255, byte k holding bits 8k..8k+7 most
\* significant first.
C11_PacksMsbFirst ==
    WellFormed(pulses) =>
       \A c \in {code, code_main} :
          c # Pending =>
             /\ Len(c) = 4
             /\ \A k \in 1..4 : c[k] \in 0..255 /\ c[k] = ByteOf(pulses, k - 1)

\* the pattern 01100001 11010110 01001000 10110111 gives (0x61, 0xD6, 0x48, 0xB7)
C11_Witness ==
    /\ WellFormed(pulses)
    /\ <<BitOf(pulses, 0), BitOf(pulses, 1), BitOf(pulses, 2), BitOf(pulses, 3),
         BitOf(pulses, 4), BitOf(pulses, 5), BitOf(pulses, 6), BitOf(pulses, 7)>>
          = <<0, 1, 1, 0, 0, 0, 0, 1>>
    /\ <<BitOf(pulses, 28), BitOf(pulses, 29), BitOf(pulses, 30), BitOf(pulses, 31)>>
          = <<0, 1, 1, 1>>
    /\ code = <<97, 214, 72, 183>>
    /\ code_main = <<97, 214, 72, 183>>

\* C19: the two decode_nec functions return the same value for every pulse list.
C19_DecodersAgree ==
    (code # Pending /\ code_main # Pending) => code = code_main

C19_Witness ==
    /\ Len(pulses) >= 66
    /\ ValidHeader(pulses)
    /\ \E i \in 0..30 :
          /\ ~ValidSpace(SpaceOf(pulses, i))
          /\ \A j \in 0..31 : j # i => ValidSpace(SpaceOf(pulses, j))
    /\ code = None
    /\ code_main = None

---------------------------------------------------------------------------
(* Further properties of the controller *)

\* C15: every armed learn_button call returns, with learning_mode false, whatever
\* the line does (stuck high: every capture is empty after the idle timeout;
\* stuck low: every capture is empty after one pulse timeout).
C15_LearningResolves ==
    /\ (pc = "learn_button") ~> (pc = "menu" /\ ~learning_mode)
    /\ [][ (pc = "learn_button" /\ pc' = "menu") =>
              (~learning_mode' /\ learn_result' \in {"True", "False"}) ]_vars

C15_Witness ==
    /\ pc = "menu"
    /\ line = "stuck_low"
    /\ button_name \in OutputNames
    /\ learn_result = "False"
    /\ ~learning_mode

\* the six literal bindings of the startup configuration
SixNames ==
    [c \in { <<97, 214, 72, 183>>, <<97, 214, 216, 39>>, <<97, 214, 88, 167>>,
             <<97, 214, 32, 223>>, <<97, 214, 96, 159>>, <<97, 214, 160, 95>> } |->
        CASE c = <<97, 214, 72, 183>> -> "POWER"
          [] c = <<97, 214, 216, 39>> -> "UP"
          [] c = <<97, 214, 88, 167>> -> "DOWN"
          [] c = <<97, 214, 32, 223>> -> "LEFT"
          [] c = <<97, 214, 96, 159>> -> "RIGHT"
          [] OTHER -> "MENU"]

\* a turn of run_continuous that ran process_ir_signal
ListenCycleStep == pc = "run_continuous" /\ pc' # "menu"

C16_FailedCycleChangesNothing ==
    [][ ((LearnCycleStep \/ ListenCycleStep) /\ code' = None) =>
           /\ button_codes' = button_codes
           /\ outputs' = outputs
           /\ learning_mode' = learning_mode
           /\ learning_button' = learning_button
           /\ result' = "None"
           /\ pc' = pc ]_vars

C16_Witness ==
    /\ pc = "learn_button"
    /\ learning_mode
    /\ noise > 0
    /\ cycles > 1
    /\ code = None
    /\ result = "None"
    /\ learning_button = button_name
    /\ button_codes = armed_table

\* C18: at most one output line is asserted in any state, the asserted line is
\* the one of the dispatched name, and every cycle starts with all lines
\* deasserted.
C18_OneLineAtATime ==
    /\ Cardinality({n \in DOMAIN outputs : outputs[n]}) <= 1
    /\ pc = "trigger_output" => outputs[triggered]
    /\ pc \in {"run_continuous", "learn_button"} => AllOff

\* C20: every name stored in the table is one of the six output names, so a
\* bound code's dispatch finds its output line; the set of bound codes never
\* shrinks.
C20_NamesKnownCodesKept ==
    /\ [](\A k \in DOMAIN button_codes : button_codes[k] \in OutputNames)
    /\ [][ /\ DOMAIN button_codes \subseteq DOMAIN button_codes'
           /\ (ListenCycleStep /\ code' # None /\ code' \in DOMAIN button_codes) =>
                 /\ pc' = "trigger_output"
                 /\ triggered' = button_codes[code']
                 /\ outputs'[button_codes[code']] ]_vars

C20_Witness ==
    /\ pc = "trigger_output"
    /\ code = NewCode
    /\ triggered = "DOWN"
    /\ outputs["DOWN"]
    /\ button_name = "VOLUME"
    /\ learn_result = "False"
    /\ DOMAIN SeedTable \subseteq DOMAIN button_codes

---------------------------------------------------------------------------
(* Properties of read_pulses (SpecCapture) *)

CaptureDone == pc = "rp_done"

C13_CaptureTimeBound ==
    CaptureDone => rp.now <= 100 * 1000 + 100 * 10000

\* C17: every recorded duration is between 0 and the pulse timeout (10000 us).
C17_DurationsCapped ==
    \A k \in 1..Len(pulses) : 0 <= pulses[k] /\ pulses[k] <= 10000

\* every read_pulses call returns (the termination half of C13)
CaptureTerminates == <>CaptureDone

=============================================================================
